---- MODULE Spec2Model ----
(***************************************************************************)
(* Quality-control and packaging system: state reconstruction from the     *)
(* persisted box / reject records, packing of approved items into boxes    *)
(* of fixed capacity, and removal of items.                                *)
(*                                                                         *)
(* Modelled from src/quality_control_system.py, src/models.py and          *)
(* src/settings.py.                                                        *)
(*                                                                         *)
(* Python objects are compared by identity (Item defines no __eq__), so an *)
(* Item object held in a box carries the field `indexed`: it is TRUE iff   *)
(* items[id] is that very object.  It is what `item in box.items` and      *)
(* `box.items.remove(item)` look at.  to_dict drops the field.             *)
(***************************************************************************)
EXTENDS Integers, Sequences, FiniteSets, TLC

\* ------------------------------------------------------------------
\* Bounds of the model
\* ------------------------------------------------------------------
\* Item ids are the strings "P1".."Pn"; the model writes them 1..NumIds.
NumIds == 3
\* Box ids handed out by the program are capped (guards of the actions).
MaxBoxId == 3
\* Operations (reconstruction included) run on a store of arbitrary records.
MaxOps == 2
\* settings.BOX_CAPACITY is 10; the model packs boxes of this size.
BOX_CAPACITY == 2

\* ------------------------------------------------------------------
\* settings.py
\* ------------------------------------------------------------------
MIN_WEIGHT == 95
MAX_WEIGHT == 105
MIN_LENGTH == 10
MAX_LENGTH == 20
ALLOWED_COLORS == {"azul", "verde"}

\* A box record present before the first reconstruction holds up to a boxful.
MaxRecLen == BOX_CAPACITY

ItemIds == 1..NumIds
BoxIds == 1..MaxBoxId

\* Inputs typed at the prompts of register_item.
Weights == {100}
RawColors == {"Azul ", "preto"}
Lengths == {15}

\* Values handed to evaluate_item on its own: both ends of each range, the
\* values next to them, and colours that need lower() or strip()
EvalWeights == {94, 95, 100, 105, 106}
EvalColors == {"azul", "AZUL", " Verde", "Preto", "preto"}
EvalLengths == {9, 10, 15, 20, 21}

VARIABLES
    items,                   \* dict id -> Item
    approved_items_ids,      \* list of ids
    not_approved_items_ids,  \* list of ids
    closed_boxes,            \* list of Box
    open_box,                \* Box or None
    disk_boxes,              \* BOX_DIR: key -> box_NNNN.json
    disk_rejects,            \* REJECTS_FILE
    pc,                      \* "start" before main() has called load_state
    lastOp,                  \* the operation that produced this state
    lastWrites,              \* the records that operation wrote
    budget,                  \* operations left to run; negative: no limit
    evaluated                \* the Item evaluate_item is called on by itself

vars == <<items, approved_items_ids, not_approved_items_ids, closed_boxes,
          open_box, disk_boxes, disk_rejects, pc, lastOp, lastWrites, budget,
          evaluated>>

\* ------------------------------------------------------------------
\* Sequence helpers (list.remove, `in`)
\* ------------------------------------------------------------------
Range(s) == {s[i] : i \in 1..Len(s)}

RemoveAt(s, i) == SubSeq(s, 1, i - 1) \o SubSeq(s, i + 1, Len(s))

\* list.remove(x): drops the first element equal to x
ListRemove(s, x) ==
    LET hits == {i \in 1..Len(s) : s[i] = x}
    IN  IF hits = {} THEN s
        ELSE RemoveAt(s, CHOOSE i \in hits : \A j \in hits : i <= j)

\* ------------------------------------------------------------------
\* models.py
\* ------------------------------------------------------------------
None == [kind |-> "none"]
Absent == [kind |-> "absent"]
Corrupt == [kind |-> "corrupt"]

\* str.lower().strip() on the colours the model uses
NormalizeColor(c) ==
    CASE c = "Azul " -> "azul"
      [] c = "AZUL" -> "azul"
      [] c = " Verde" -> "verde"
      [] c = "Preto" -> "preto"
      [] OTHER -> c

\* Item.__init__
Item(id, weight, color, length, approved, failure_reasons) ==
    [id |-> id, weight |-> weight, color |-> NormalizeColor(color),
     length |-> length, approved |-> approved,
     failure_reasons |-> failure_reasons, indexed |-> FALSE]

\* Item.to_dict
ItemToDict(it) ==
    [id |-> it.id, weight |-> it.weight, color |-> it.color,
     length |-> it.length, approved |-> it.approved,
     failure_reasons |-> it.failure_reasons]

\* Item.from_dict
ItemFromDict(d) ==
    Item(d.id, d.weight, d.color, d.length, d.approved, d.failure_reasons)

EvaluateItemFirstFailure(it) ==
    LET reasons ==
            IF ~(MIN_WEIGHT <= it.weight /\ it.weight <= MAX_WEIGHT)
            THEN <<"Peso fora da faixa">>
            ELSE IF it.color \notin ALLOWED_COLORS
            THEN <<"Cor invalida">>
            ELSE IF ~(MIN_LENGTH <= it.length /\ it.length <= MAX_LENGTH)
            THEN <<"Comprimento fora da faixa">>
            ELSE <<>>
    IN  IF reasons # <<>>
        THEN [it EXCEPT !.approved = FALSE, !.failure_reasons = reasons]
        ELSE [it EXCEPT !.approved = TRUE, !.failure_reasons = <<>>]

EvaluateItemNoReasons(it) ==
    [it EXCEPT !.approved =
                   /\ MIN_WEIGHT <= it.weight /\ it.weight <= MAX_WEIGHT
                   /\ it.color \in ALLOWED_COLORS
                   /\ MIN_LENGTH <= it.length /\ it.length <= MAX_LENGTH,
               !.failure_reasons = <<>>]

\* evaluate_item (the reason strings are written here without accents)
EvaluateItem(it) ==
    LET reasons ==
            (IF ~(MIN_WEIGHT <= it.weight /\ it.weight <= MAX_WEIGHT)
             THEN <<"Peso fora da faixa">> ELSE <<>>)
            \o (IF it.color \notin ALLOWED_COLORS
                THEN <<"Cor invalida">> ELSE <<>>)
            \o (IF ~(MIN_LENGTH <= it.length /\ it.length <= MAX_LENGTH)
                THEN <<"Comprimento fora da faixa">> ELSE <<>>)
    IN  IF reasons # <<>>
        THEN [it EXCEPT !.approved = FALSE, !.failure_reasons = reasons]
        ELSE [it EXCEPT !.approved = TRUE, !.failure_reasons = <<>>]

\* Box.__init__
Box(id, closed, its) == [kind |-> "box", id |-> id, closed |-> closed, items |-> its]

FullExact(box) == Len(box.items) = BOX_CAPACITY

FullOver(box) == Len(box.items) > BOX_CAPACITY

\* Box.full
Full(box) == Len(box.items) >= BOX_CAPACITY

\* Box.to_dict
BoxToDict(box) ==
    [kind |-> "box", id |-> box.id, closed |-> box.closed,
     items |-> [i \in 1..Len(box.items) |-> ItemToDict(box.items[i])]]

\* Box.from_dict
BoxFromDict(d) ==
    Box(d.id, d.closed, [i \in 1..Len(d.items) |-> ItemFromDict(d.items[i])])

\* ------------------------------------------------------------------
\* Persistence
\* ------------------------------------------------------------------
SaveBoxNothing(db, box) == db

\* save_box: whole-record overwrite of the file named after box.id
SaveBox(db, box) == [db EXCEPT ![box.id] = BoxToDict(box)]

SaveRejectsStale(its, rej_ids) ==
    [kind |-> "rejects",
     items |-> [i \in 1..(Len(rej_ids) - 1) |-> ItemToDict(its[rej_ids[i]])]]

\* save_rejects
SaveRejects(its, rej_ids) ==
    [kind |-> "rejects",
     items |-> [i \in 1..Len(rej_ids) |-> ItemToDict(its[rej_ids[i]])]]

\* load_rejects
LoadRejects(dr) ==
    IF dr.kind = "rejects"
    THEN [i \in 1..Len(dr.items) |-> ItemFromDict(dr.items[i])]
    ELSE <<>>

\* the loop of load_boxes: every parsable record, in file-name order
RECURSIVE ReadBoxes(_, _)
ReadBoxes(db, k) ==
    IF k > MaxBoxId THEN <<>>
    ELSE (IF db[k].kind = "box" THEN <<BoxFromDict(db[k])>> ELSE <<>>)
         \o ReadBoxes(db, k + 1)

RECURSIVE SortByIdReversed(_)
SortByIdReversed(bs) ==
    IF bs = <<>> THEN <<>>
    ELSE LET rest == SortByIdReversed(SubSeq(bs, 1, Len(bs) - 1))
             b == bs[Len(bs)]
             n == Cardinality({i \in 1..Len(rest) : rest[i].id >= b.id})
         IN  SubSeq(rest, 1, n) \o <<b>> \o SubSeq(rest, n + 1, Len(rest))

\* sorted(bs, key=lambda b: b.id), by insertion
RECURSIVE SortById(_)
SortById(bs) ==
    IF bs = <<>> THEN <<>>
    ELSE LET rest == SortById(SubSeq(bs, 1, Len(bs) - 1))
             b == bs[Len(bs)]
             n == Cardinality({i \in 1..Len(rest) : rest[i].id <= b.id})
         IN  SubSeq(rest, 1, n) \o <<b>> \o SubSeq(rest, n + 1, Len(rest))

CountBoxes(bs) == Len(bs)

\* max(b.id for b in boxes)
MaxId(bs) == CHOOSE m \in {bs[i].id : i \in 1..Len(bs)} : \A i \in 1..Len(bs) : bs[i].id <= m

\* load_boxes: the closed boxes, the open box, the records after it, the keys written
LoadBoxes(db) ==
    LET boxes == ReadBoxes(db, 1)
    IN  IF boxes = <<>>
        THEN LET new_box == Box(1, FALSE, <<>>)
             IN  [closed |-> <<>>, open |-> new_box,
                  disk |-> SaveBox(db, new_box), writes |-> <<1>>]
        ELSE LET open_candidates == SelectSeq(boxes, LAMBDA b : ~b.closed)
                 closed == SortById(SelectSeq(boxes, LAMBDA b : b.closed))
             IN  IF open_candidates # <<>>
                 THEN [closed |-> closed,
                       open |-> SortById(open_candidates)[Len(open_candidates)],
                       disk |-> db, writes |-> <<>>]
                 ELSE LET open_b == Box(MaxId(boxes) + 1, FALSE, <<>>)
                      IN  [closed |-> closed, open |-> open_b,
                           disk |-> SaveBox(db, open_b), writes |-> <<open_b.id>>]

\* every item of the boxes, in the order load_state walks them
RECURSIVE Flatten(_)
Flatten(bs) == IF bs = <<>> THEN <<>> ELSE bs[1].items \o Flatten(Tail(bs))

\* the loops of load_state over a list of Items: items[it.id] = it
RECURSIVE IndexItems(_, _)
IndexItems(its, acc) ==
    IF its = <<>> THEN acc
    ELSE IndexItems(Tail(its),
                    [x \in (DOMAIN acc) \cup {its[1].id} |->
                        IF x = its[1].id THEN ItemToDict(its[1]) ELSE acc[x]])

EmptyDict == [x \in {} |-> 0]

\* ids of the items on which load_state appends to approved_items_ids
ApprovedIdsOf(its) ==
    LET sel == SelectSeq(its, LAMBDA it : it.approved)
    IN  [i \in 1..Len(sel) |-> sel[i].id]

IdsOf(its) == [i \in 1..Len(its) |-> its[i].id]

\* the box objects after load_state: an Item object is the one items[id]
\* refers to iff no later assignment items[it.id] = ... replaced it
MarkBoxes(bs, rejects) ==
    LET later(i, p, j, q) == j > i \/ (j = i /\ q > p)
        kept(i, p) ==
            /\ ~\E j \in 1..Len(bs) : \E q \in 1..Len(bs[j].items) :
                   later(i, p, j, q) /\ bs[j].items[q].id = bs[i].items[p].id
            /\ ~\E r \in 1..Len(rejects) : rejects[r].id = bs[i].items[p].id
    IN  [i \in 1..Len(bs) |->
            [bs[i] EXCEPT !.items =
                [p \in 1..Len(bs[i].items) |->
                    [bs[i].items[p] EXCEPT !.indexed = kept(i, p)]]]]

\* load_state
Reconstruct(db, dr) ==
    LET lb == LoadBoxes(db)
        all == lb.closed \o <<lb.open>>
        rejects == LoadRejects(dr)
        marked == MarkBoxes(all, rejects)
    IN  [items |-> IndexItems(rejects, IndexItems(Flatten(all), EmptyDict)),
         approved_items_ids |-> ApprovedIdsOf(Flatten(all)),
         not_approved_items_ids |-> IdsOf(rejects),
         closed_boxes |-> SubSeq(marked, 1, Len(marked) - 1),
         open_box |-> marked[Len(marked)],
         disk |-> lb.disk,
         writes |-> lb.writes]

NoWrites == [boxes |-> <<>>, rejects |-> FALSE]

\* ------------------------------------------------------------------
\* Initial states
\* ------------------------------------------------------------------
\* module-level state before main() runs, on an empty record store
Init ==
    /\ items = EmptyDict
    /\ approved_items_ids = <<>>
    /\ not_approved_items_ids = <<>>
    /\ closed_boxes = <<>>
    /\ open_box = None
    /\ disk_boxes = [k \in BoxIds |-> Absent]
    /\ disk_rejects = Absent
    /\ pc = "start"
    /\ lastOp = [op |-> "init", id |-> 0, res |-> "ok"]
    /\ lastWrites = NoWrites
    /\ budget = -1
    /\ evaluated = None

\* an item as register_item leaves it: approved, or rejected for its colour
Good(id) == ItemToDict(EvaluateItem(Item(id, 100, "azul", 15, FALSE, <<>>)))
Bad(id) == ItemToDict(EvaluateItem(Item(id, 100, "preto", 15, FALSE, <<>>)))

\* the items of the records a store holds before the program first runs:
\* one id, so that it can occur twice, with either verdict
RecordItems == {Good(1), Bad(1)}

\* the keys that hold a record before the program first runs
StoreKeys == 1..2

BoundedSeqs(S, n) == UNION {[1..k -> S] : k \in 0..n}

\* what box_NNNN.json may hold: nothing, unparsable text, or a box keyed by its id
BoxRecords(k) ==
    {Absent, Corrupt} \cup
    {[kind |-> "box", id |-> k, closed |-> c, items |-> its] :
        c \in BOOLEAN, its \in BoundedSeqs(RecordItems, MaxRecLen)}

RejectRecords ==
    {Absent, Corrupt} \cup
    {[kind |-> "rejects", items |-> its] : its \in BoundedSeqs(RecordItems, 1)}

\* the box records a store may hold before the program first runs
InitialStores ==
    {[k \in BoxIds |-> IF k \in StoreKeys THEN f[k] ELSE Absent] :
        f \in {g \in [StoreKeys -> UNION {BoxRecords(k) : k \in StoreKeys}] :
                  \A k \in StoreKeys : g[k] \in BoxRecords(k)}}

\* module-level state before main() runs, on any record store
InitAny ==
    /\ items = EmptyDict
    /\ approved_items_ids = <<>>
    /\ not_approved_items_ids = <<>>
    /\ closed_boxes = <<>>
    /\ open_box = None
    /\ disk_boxes \in InitialStores
    /\ disk_rejects \in RejectRecords
    /\ pc = "start"
    /\ lastOp = [op |-> "init", id |-> 0, res |-> "ok"]
    /\ lastWrites = NoWrites
    /\ budget = MaxOps
    /\ evaluated = None

\* module-level state before main() runs, on any store whose records all parse
InitParsable ==
    /\ InitAny
    /\ \A k \in BoxIds : disk_boxes[k] # Corrupt
    /\ disk_rejects # Corrupt

\* ------------------------------------------------------------------
\* Operations
\* ------------------------------------------------------------------
\* one more operation of the program runs
Spend ==
    /\ budget # 0
    /\ budget' = IF budget < 0 THEN budget ELSE budget - 1
    /\ UNCHANGED evaluated

\* load_state (main() calls it once; a restart of the program calls it again)
LoadState ==
    LET r == Reconstruct(disk_boxes, disk_rejects)
    IN  /\ Spend
        /\ disk_boxes[MaxBoxId].kind = "box" =>
               \E k \in BoxIds : disk_boxes[k].kind = "box" /\ ~disk_boxes[k].closed
        /\ items' = r.items
        /\ approved_items_ids' = r.approved_items_ids
        /\ not_approved_items_ids' = r.not_approved_items_ids
        /\ closed_boxes' = r.closed_boxes
        /\ open_box' = r.open_box
        /\ disk_boxes' = r.disk
        /\ UNCHANGED disk_rejects
        /\ pc' = "ready"
        /\ lastOp' = [op |-> "load", id |-> 0, res |-> "ok"]
        /\ lastWrites' = [boxes |-> r.writes, rejects |-> FALSE]

StoreItemStaleFlag(ob, cbs, db, item) ==
    LET appended == [ob EXCEPT !.items = Append(@, item)]
    IN  IF Full(appended)
        THEN LET shut == [appended EXCEPT !.closed = TRUE]
                 fresh == Box(ob.id + 1, FALSE, <<>>)
             IN  [open |-> fresh, closed |-> Append(cbs, shut),
                  disk |-> SaveBox(SaveBox(db, appended), fresh),
                  writes |-> <<shut.id, fresh.id>>]
        ELSE [open |-> appended, closed |-> cbs,
              disk |-> SaveBox(db, appended), writes |-> <<appended.id>>]

StoreItemPrepend(ob, cbs, db, item) ==
    LET appended == [ob EXCEPT !.items = <<item>> \o @]
    IN  IF Full(appended)
        THEN LET shut == [appended EXCEPT !.closed = TRUE]
                 fresh == Box(ob.id + 1, FALSE, <<>>)
             IN  [open |-> fresh, closed |-> Append(cbs, shut),
                  disk |-> SaveBox(SaveBox(db, shut), fresh),
                  writes |-> <<shut.id, fresh.id>>]
        ELSE [open |-> appended, closed |-> cbs,
              disk |-> SaveBox(db, appended), writes |-> <<appended.id>>]

StoreItemSkipId(ob, cbs, db, item) ==
    LET appended == [ob EXCEPT !.items = Append(@, item)]
    IN  IF Full(appended)
        THEN LET shut == [appended EXCEPT !.closed = TRUE]
                 fresh == Box(ob.id + 2, FALSE, <<>>)
             IN  [open |-> fresh, closed |-> Append(cbs, shut),
                  disk |-> SaveBox(SaveBox(db, shut), fresh),
                  writes |-> <<shut.id, fresh.id>>]
        ELSE [open |-> appended, closed |-> cbs,
              disk |-> SaveBox(db, appended), writes |-> <<appended.id>>]

StoreItemLost(ob, cbs, db, item) ==
    LET appended == [ob EXCEPT !.items = Append(@, item)]
    IN  IF Full(appended)
        THEN LET shut == [appended EXCEPT !.closed = TRUE]
                 fresh == Box(ob.id + 1, FALSE, <<>>)
             IN  [open |-> fresh, closed |-> cbs,
                  disk |-> SaveBox(SaveBox(db, shut), fresh),
                  writes |-> <<shut.id, fresh.id>>]
        ELSE [open |-> appended, closed |-> cbs,
              disk |-> SaveBox(db, appended), writes |-> <<appended.id>>]

\* store_item: the open box, the closed boxes and the records after it
StoreItem(ob, cbs, db, item) ==
    LET appended == [ob EXCEPT !.items = Append(@, item)]
    IN  IF Full(appended)
        THEN LET shut == [appended EXCEPT !.closed = TRUE]
                 fresh == Box(ob.id + 1, FALSE, <<>>)
             IN  [open |-> fresh, closed |-> Append(cbs, shut),
                  disk |-> SaveBox(SaveBox(db, shut), fresh),
                  writes |-> <<shut.id, fresh.id>>]
        ELSE [open |-> appended, closed |-> cbs,
              disk |-> SaveBox(db, appended), writes |-> <<appended.id>>]

\* save_rejects raises KeyError when a rejected id has no entry in items
RejectsSavable(its, rej_ids) == \A i \in 1..Len(rej_ids) : rej_ids[i] \in DOMAIN its

\* an uncaught exception ends the process: the next process starts from the
\* module-level values and the records as they are
Crash(op, id) ==
    /\ items' = EmptyDict
    /\ approved_items_ids' = <<>>
    /\ not_approved_items_ids' = <<>>
    /\ closed_boxes' = <<>>
    /\ open_box' = None
    /\ UNCHANGED <<disk_boxes, disk_rejects>>
    /\ pc' = "start"
    /\ lastOp' = [op |-> op, id |-> id, res |-> "crash"]
    /\ lastWrites' = NoWrites

\* an operation that returns early
Refuse(op, id, res) ==
    /\ UNCHANGED <<items, approved_items_ids, not_approved_items_ids,
                   closed_boxes, open_box, disk_boxes, disk_rejects, pc>>
    /\ lastOp' = [op |-> op, id |-> id, res |-> res]
    /\ lastWrites' = NoWrites

RegisterDuplicateAccepts(id) ==
    LET item == EvaluateItem(Item(id, 100, "preto", 15, FALSE, <<>>))
        items1 == [items EXCEPT ![id] = ItemToDict(item)]
        rej1 == Append(not_approved_items_ids, id)
    IN  /\ pc = "ready"
        /\ Spend
        /\ id \in DOMAIN items
        /\ items' = items1
        /\ not_approved_items_ids' = rej1
        /\ disk_rejects' = SaveRejects(items1, rej1)
        /\ UNCHANGED <<approved_items_ids, closed_boxes, open_box, disk_boxes, pc>>
        /\ lastOp' = [op |-> "register", id |-> id, res |-> "rejected"]
        /\ lastWrites' = [boxes |-> <<>>, rejects |-> TRUE]

\* register_item, lines 242-248: the id is already in items
RegisterDuplicate(id) ==
    /\ pc = "ready"
    /\ Spend
    /\ id \in DOMAIN items
    /\ Refuse("register", id, "duplicate")

\* register_item, lines 243-245 and 250-256: empty id, or a weight or length
\* that float() rejects
RegisterInvalid ==
    /\ pc = "ready"
    /\ Spend
    /\ Refuse("register", 0, "invalid")

\* register_item, lines 258-269
Register(id, weight, color, length) ==
    /\ pc = "ready"
    /\ Spend
    /\ id \notin DOMAIN items
    /\ LET item == [EvaluateItem(Item(id, weight, color, length, FALSE, <<>>))
                      EXCEPT !.indexed = TRUE]
           items1 == [x \in (DOMAIN items) \cup {id} |->
                         IF x = id THEN ItemToDict(item) ELSE items[x]]
       IN  IF item.approved
           THEN LET st == StoreItem(open_box, closed_boxes, disk_boxes, item)
                IN  /\ Len(open_box.items) + 1 >= BOX_CAPACITY => open_box.id < MaxBoxId
                    /\ items' = items1
                    /\ approved_items_ids' = Append(approved_items_ids, id)
                    /\ UNCHANGED <<not_approved_items_ids, disk_rejects, pc>>
                    /\ open_box' = st.open
                    /\ closed_boxes' = st.closed
                    /\ disk_boxes' = st.disk
                    /\ lastOp' = [op |-> "register", id |-> id, res |-> "approved"]
                    /\ lastWrites' = [boxes |-> st.writes, rejects |-> FALSE]
           ELSE LET rej1 == Append(not_approved_items_ids, id)
                IN  IF RejectsSavable(items1, rej1)
                    THEN /\ items' = items1
                         /\ not_approved_items_ids' = rej1
                         /\ disk_rejects' = SaveRejects(items1, rej1)
                         /\ UNCHANGED <<approved_items_ids, closed_boxes,
                                        open_box, disk_boxes, pc>>
                         /\ lastOp' = [op |-> "register", id |-> id, res |-> "rejected"]
                         /\ lastWrites' = [boxes |-> <<>>, rejects |-> TRUE]
                    ELSE Crash("register", id)

\* `item in box.items`: the object items[id] refers to is in the box
Holds(box, id) == \E p \in 1..Len(box.items) : box.items[p].id = id /\ box.items[p].indexed

BoxRemoveReopen(box, id) ==
    LET its == RemoveAt(box.items,
                        CHOOSE p \in 1..Len(box.items) :
                            box.items[p].id = id /\ box.items[p].indexed)
    IN  [box EXCEPT !.items = its, !.closed = @ /\ Len(its) >= BOX_CAPACITY]

BoxRemoveNothing(box, id) == box

BoxRemoveFirst(box, id) == [box EXCEPT !.items = Tail(@)]

\* box.items.remove(item)
BoxRemove(box, id) ==
    [box EXCEPT !.items =
        RemoveAt(@, CHOOSE p \in 1..Len(@) : @[p].id = id /\ @[p].indexed)]

RemoveNotFoundSaves(id) ==
    /\ pc = "ready"
    /\ Spend
    /\ id \notin DOMAIN items
    /\ UNCHANGED <<items, approved_items_ids, not_approved_items_ids,
                   closed_boxes, open_box, disk_boxes, pc>>
    /\ disk_rejects' = SaveRejects(items, not_approved_items_ids)
    /\ lastOp' = [op |-> "remove", id |-> id, res |-> "notfound"]
    /\ lastWrites' = [boxes |-> <<>>, rejects |-> TRUE]

\* remove_item, lines 281-283
RemoveNotFound(id) ==
    /\ pc = "ready"
    /\ Spend
    /\ id \notin DOMAIN items
    /\ Refuse("remove", id, "notfound")

\* remove_item, lines 285-313
Remove(id) ==
    /\ pc = "ready"
    /\ Spend
    /\ id \in DOMAIN items
    /\ LET item == items[id]
           items1 == [x \in (DOMAIN items) \ {id} |-> items[x]]
           hits == {i \in 1..Len(closed_boxes) : Holds(closed_boxes[i], id)}
           first == CHOOSE i \in hits : \A j \in hits : i <= j
       IN  IF item.approved
           THEN /\ IF Holds(open_box, id)
                   THEN /\ open_box' = BoxRemove(open_box, id)
                        /\ disk_boxes' = SaveBox(disk_boxes, open_box')
                        /\ lastWrites' = [boxes |-> <<open_box.id>>, rejects |-> FALSE]
                        /\ UNCHANGED closed_boxes
                   ELSE IF hits # {}
                   THEN /\ closed_boxes' = [closed_boxes EXCEPT ![first] = BoxRemove(@, id)]
                        /\ disk_boxes' = SaveBox(disk_boxes, closed_boxes'[first])
                        /\ lastWrites' = [boxes |-> <<closed_boxes[first].id>>, rejects |-> FALSE]
                        /\ UNCHANGED open_box
                   ELSE /\ UNCHANGED <<open_box, closed_boxes, disk_boxes>>
                        /\ lastWrites' = NoWrites
                /\ approved_items_ids' = ListRemove(approved_items_ids, id)
                /\ items' = items1
                /\ UNCHANGED <<not_approved_items_ids, disk_rejects, pc>>
                /\ lastOp' = [op |-> "remove", id |-> id, res |-> "ok"]
           ELSE IF id \in Range(not_approved_items_ids)
           THEN LET rej1 == ListRemove(not_approved_items_ids, id)
                IN  IF RejectsSavable(items, rej1)
                    THEN /\ not_approved_items_ids' = rej1
                         /\ disk_rejects' = SaveRejects(items, rej1)
                         /\ items' = items1
                         /\ UNCHANGED <<approved_items_ids, closed_boxes,
                                        open_box, disk_boxes, pc>>
                         /\ lastOp' = [op |-> "remove", id |-> id, res |-> "ok"]
                         /\ lastWrites' = [boxes |-> <<>>, rejects |-> TRUE]
                    ELSE Crash("remove", id)
           ELSE /\ items' = items1
                /\ UNCHANGED <<approved_items_ids, not_approved_items_ids,
                               closed_boxes, open_box, disk_boxes, disk_rejects, pc>>
                /\ lastOp' = [op |-> "remove", id |-> id, res |-> "ok"]
                /\ lastWrites' = NoWrites

\* register_item, lines 250-258: the values read at the prompts and the
\* Item built from them, before evaluate_item is called on it
InitEval ==
    /\ items = EmptyDict
    /\ approved_items_ids = <<>>
    /\ not_approved_items_ids = <<>>
    /\ closed_boxes = <<>>
    /\ open_box = None
    /\ disk_boxes = [k \in BoxIds |-> Absent]
    /\ disk_rejects = Absent
    /\ pc = "start"
    /\ lastOp = [op |-> "init", id |-> 0, res |-> "ok"]
    /\ lastWrites = NoWrites
    /\ budget = -1
    /\ \E w \in EvalWeights, c \in EvalColors, l \in EvalLengths :
           evaluated = [kind |-> "built", weight |-> w, color |-> c, length |-> l,
                        item |-> Item(1, w, c, l, FALSE, <<>>)]

\* evaluate_item(item), called once on the Item just built
Evaluate ==
    /\ evaluated.kind = "built"
    /\ evaluated' = [evaluated EXCEPT !.kind = "evaluated",
                                      !.item = EvaluateItem(@)]
    /\ UNCHANGED <<items, approved_items_ids, not_approved_items_ids,
                   closed_boxes, open_box, disk_boxes, disk_rejects, pc,
                   lastOp, lastWrites, budget>>

\* the start of the program and the menu loop of main()
Next ==
    \/ LoadState
    \/ \E id \in ItemIds, w \in Weights, c \in RawColors, l \in Lengths :
           Register(id, w, c, l)
    \/ \E id \in ItemIds : RegisterDuplicate(id)
    \/ RegisterInvalid
    \/ \E id \in ItemIds : Remove(id)
    \/ \E id \in ItemIds : RemoveNotFound(id)

\* the program started on an empty record store
Spec == Init /\ [][Next]_vars

\* the program started on any record store, MaxOps operations long
SpecAny == InitAny /\ [][Next]_vars

\* reconstruction, run again and again on any record store
SpecLoad == InitAny /\ [][LoadState]_vars

\* the program started on any store of parsable records, MaxOps operations long
SpecParsable == InitParsable /\ [][Next]_vars

\* evaluate_item alone, on every combination of the bounded inputs
SpecEval == InitEval /\ [][Evaluate]_vars

\* ------------------------------------------------------------------
\* Properties
\* ------------------------------------------------------------------
\* the boxes in memory, closed ones first
AllBoxes == closed_boxes \o (IF open_box.kind = "box" THEN <<open_box>> ELSE <<>>)

\* where an item with this id sits: <<box, position>> in AllBoxes
BoxesWith(id) ==
    UNION {{<<i, p>> : p \in {q \in 1..Len(AllBoxes[i].items) : AllBoxes[i].items[q].id = id}} :
              i \in 1..Len(AllBoxes)}

BoxedIds == UNION {{AllBoxes[i].items[p].id : p \in 1..Len(AllBoxes[i].items)} :
                      i \in 1..Len(AllBoxes)}

ClosedRecord(db, k) == db[k].kind = "box" /\ db[k].closed

OpenRecords(db) == {k \in BoxIds : db[k].kind = "box" /\ ~db[k].closed}

\* C1: once a box is closed, in memory or in its record, every later state
\* has it closed, and it is never the open box again.
ClosedIsOneWay ==
    [][ /\ \A k \in BoxIds : ClosedRecord(disk_boxes, k) => ClosedRecord(disk_boxes', k)
        /\ (pc = "ready" /\ pc' = "ready") =>
              \A i \in 1..Len(AllBoxes) :
                  AllBoxes[i].closed =>
                      /\ \E j \in 1..Len(closed_boxes') :
                             /\ closed_boxes'[j].id = AllBoxes[i].id
                             /\ closed_boxes'[j].closed
                      /\ open_box'.id # AllBoxes[i].id ]_vars

ClosedIsOneWayWitness ==
    /\ lastOp.op = "remove" /\ lastOp.res = "ok"
    /\ \E i \in 1..Len(closed_boxes) :
           /\ closed_boxes[i].closed
           /\ Len(closed_boxes[i].items) < BOX_CAPACITY
           /\ lastWrites.boxes = <<closed_boxes[i].id>>
           /\ ClosedRecord(disk_boxes, closed_boxes[i].id)

\* C2: after store_item returns, whatever state it was called in, the open
\* box is not closed and holds fewer than BOX_CAPACITY items.
OpenBoxNotFullAfterStore ==
    (lastOp.op = "register" /\ lastOp.res = "approved") =>
        /\ open_box.kind = "box"
        /\ ~open_box.closed
        /\ Len(open_box.items) < BOX_CAPACITY

\* store_item was called on an open box that already held a boxful
OpenBoxNotFullAfterStoreWitness ==
    /\ lastOp.op = "register" /\ lastOp.res = "approved"
    /\ Len(lastWrites.boxes) = 2
    /\ Len(closed_boxes[Len(closed_boxes)].items) > BOX_CAPACITY

\* C3: from an empty record store, no box in memory and no box record holds
\* more than BOX_CAPACITY items.
NoBoxOverCapacity ==
    /\ \A i \in 1..Len(AllBoxes) : Len(AllBoxes[i].items) <= BOX_CAPACITY
    /\ \A k \in BoxIds :
           disk_boxes[k].kind = "box" => Len(disk_boxes[k].items) <= BOX_CAPACITY

NoBoxOverCapacityWitness ==
    /\ pc = "ready"
    /\ open_box.items # <<>>
    /\ \E i \in 1..Len(closed_boxes) :
           /\ Len(closed_boxes[i].items) = BOX_CAPACITY
           /\ Len(disk_boxes[closed_boxes[i].id].items) = BOX_CAPACITY

\* C4: once the program has started (from an empty record store), the open
\* box is the only box in memory with closed = FALSE, and exactly one box
\* record has closed = FALSE: the record of the open box.
OnlyOneOpenBox ==
    pc = "ready" =>
        /\ open_box.kind = "box" /\ ~open_box.closed
        /\ \A i \in 1..Len(closed_boxes) : closed_boxes[i].closed
        /\ OpenRecords(disk_boxes) = {open_box.id}
        /\ disk_boxes[open_box.id] = BoxToDict(open_box)

OnlyOneOpenBoxWitness ==
    /\ pc = "ready"
    /\ Len(closed_boxes) >= 2
    /\ lastOp.op = "register" /\ lastOp.res = "approved"
    /\ Len(lastWrites.boxes) = 2

\* C5: from an empty record store, every approved id maps to an approved
\* item that sits in exactly one box, once; every rejected id maps to an item
\* that is not approved; no id is both in a box and in the reject set.
IndexesAgreeWithBoxes ==
    pc = "ready" =>
        /\ \A id \in Range(approved_items_ids) :
               /\ id \in DOMAIN items
               /\ items[id].approved
               /\ Cardinality(BoxesWith(id)) = 1
               /\ \A w \in BoxesWith(id) :
                      /\ AllBoxes[w[1]].items[w[2]].indexed
                      /\ ItemToDict(AllBoxes[w[1]].items[w[2]]) = items[id]
        /\ \A id \in Range(not_approved_items_ids) :
               /\ id \in DOMAIN items
               /\ ~items[id].approved
        /\ BoxedIds \cap Range(not_approved_items_ids) = {}
        /\ disk_rejects.kind = "rejects" =>
               BoxedIds \cap {disk_rejects.items[i].id : i \in 1..Len(disk_rejects.items)} = {}

\* an id was removed from a box and registered again, next to a rejected item
IndexesAgreeWithBoxesWitness ==
    /\ pc = "ready"
    /\ not_approved_items_ids # <<>>
    /\ closed_boxes # <<>>
    /\ \E i \in 1..Len(closed_boxes) : Len(closed_boxes[i].items) < BOX_CAPACITY
    /\ Len(approved_items_ids) >= 2
    /\ lastOp.op = "register" /\ lastOp.res = "approved"

\* C6: from an empty record store, after every completed operation,
\* reconstruction from the records yields the state held in memory.
MemoryMatchesRecords ==
    pc = "ready" =>
        LET r == Reconstruct(disk_boxes, disk_rejects)
        IN  /\ r.open_box = open_box
            /\ r.closed_boxes = closed_boxes
            /\ r.items = items
            /\ r.approved_items_ids = approved_items_ids
            /\ r.not_approved_items_ids = not_approved_items_ids

MemoryMatchesRecordsWitness ==
    /\ pc = "ready"
    /\ lastOp.op = "remove" /\ lastOp.res = "ok"
    /\ lastWrites.rejects
    /\ not_approved_items_ids # <<>>
    /\ closed_boxes # <<>>
    /\ open_box.items # <<>>

\* C7: on any records, a second reconstruction yields the state of the first
\* and writes no record.
ReconstructionIsFixedPoint ==
    lastOp.op = "load" =>
        LET r == Reconstruct(disk_boxes, disk_rejects)
        IN  /\ r.open_box = open_box
            /\ r.closed_boxes = closed_boxes
            /\ r.items = items
            /\ r.approved_items_ids = approved_items_ids
            /\ r.not_approved_items_ids = not_approved_items_ids
            /\ r.writes = <<>>
            /\ r.disk = disk_boxes

\* the first reconstruction found closed boxes only and wrote the open box
ReconstructionIsFixedPointWitness ==
    /\ lastOp.op = "load"
    /\ lastWrites.boxes = <<open_box.id>>
    /\ closed_boxes # <<>>
    /\ items # EmptyDict

\* C8: on any parsable records, reconstruction yields a state in which every
\* indexed item is in exactly one of a box and the reject set, every approved
\* id is an approved item of exactly one box, every rejected id is an item
\* that is not approved, and the two id lists cover the keys of the index.
ReconstructionEstablishesInvariants ==
    (lastOp.op = "load"
       /\ disk_rejects.kind # "corrupt"
       /\ \A k \in BoxIds : disk_boxes[k].kind # "corrupt") =>
        /\ \A id \in DOMAIN items :
               (id \in BoxedIds) # (id \in Range(not_approved_items_ids))
        /\ \A id \in Range(approved_items_ids) :
               /\ id \in DOMAIN items
               /\ items[id].approved
               /\ Cardinality({w[1] : w \in BoxesWith(id)}) = 1
        /\ \A id \in Range(not_approved_items_ids) :
               /\ id \in DOMAIN items
               /\ ~items[id].approved
        /\ Range(approved_items_ids) \cup Range(not_approved_items_ids) = DOMAIN items

\* C9: with two or more records of closed = FALSE, the one of largest id is
\* the open box; the others are in closed_boxes, their items are in the index
\* and in approved_items_ids; their records keep closed = FALSE.
OtherOpenBoxesIndexedAsClosed ==
    (lastOp.op = "load" /\ Cardinality(OpenRecords(disk_boxes)) >= 2) =>
        /\ \A k \in OpenRecords(disk_boxes) : k <= open_box.id
        /\ open_box.id \in OpenRecords(disk_boxes)
        /\ \A k \in OpenRecords(disk_boxes) \ {open_box.id} :
               /\ \E i \in 1..Len(closed_boxes) :
                      BoxToDict(closed_boxes[i]) = disk_boxes[k]
               /\ \A p \in 1..Len(disk_boxes[k].items) :
                      /\ disk_boxes[k].items[p].id \in DOMAIN items
                      /\ disk_boxes[k].items[p].approved =>
                             disk_boxes[k].items[p].id \in Range(approved_items_ids)

\* C10: reconstruction with no box record yields no closed box and the open
\* box 1 with no items, and writes the record of that box.
EmptyStoreYieldsBoxOne ==
    [][ ((\A k \in BoxIds : disk_boxes[k] = Absent) /\ lastOp'.op = "load") =>
            /\ closed_boxes' = <<>>
            /\ open_box' = Box(1, FALSE, <<>>)
            /\ disk_boxes' = [disk_boxes EXCEPT ![1] = BoxToDict(open_box')]
            /\ lastWrites'.boxes = <<1>> ]_vars

EmptyStoreYieldsBoxOneWitness ==
    /\ lastOp.op = "load"
    /\ lastWrites.boxes = <<1>>
    /\ open_box.id = 1
    /\ disk_boxes[1] = [kind |-> "box", id |-> 1, closed |-> FALSE, items |-> <<>>]
    /\ \A k \in BoxIds \ {1} : disk_boxes[k] = Absent

\* C11: when the store holds at least one box record and every parsable one
\* is closed, load_state makes an empty open box whose id is the largest
\* loaded id plus one (1 when no record could be loaded), writes exactly
\* that record, and closed_boxes is the loaded closed boxes by ascending id.
ClosedOnlyStoreGetsNextBox ==
    [][ LET parsable == {k \in BoxIds : disk_boxes[k].kind = "box"}
            top == IF parsable = {} THEN 0
                   ELSE CHOOSE m \in parsable : \A k \in parsable : k <= m
        IN  ( /\ lastOp'.op = "load"
              /\ \E k \in BoxIds : disk_boxes[k] # Absent
              /\ \A k \in parsable : disk_boxes[k].closed )
            => /\ open_box' = Box(top + 1, FALSE, <<>>)
               /\ lastWrites'.boxes = <<top + 1>>
               /\ disk_boxes' = [disk_boxes EXCEPT ![top + 1] = BoxToDict(open_box')]
               /\ {closed_boxes'[i].id : i \in 1..Len(closed_boxes')} = parsable
               /\ \A i \in 1..Len(closed_boxes') :
                      /\ BoxToDict(closed_boxes'[i]) = disk_boxes[closed_boxes'[i].id]
                      /\ \A j \in 1..Len(closed_boxes') :
                             i < j => closed_boxes'[i].id < closed_boxes'[j].id ]_vars

ClosedOnlyStoreGetsNextBoxWitness ==
    /\ lastOp.op = "load"
    /\ Len(closed_boxes) >= 2
    /\ closed_boxes[1].items # <<>>
    /\ lastWrites.boxes = <<open_box.id>>
    /\ open_box.id = closed_boxes[Len(closed_boxes)].id + 1

\* C12: a store that fills the open box to BOX_CAPACITY closes it in the same
\* operation, writes it as closed, appends it to closed_boxes and installs
\* and writes an empty open box with the next id; a store that leaves the
\* box below capacity keeps it open.  So BOX_CAPACITY approved items stored
\* in the first box give closed box 1 with them in insertion order and an
\* empty open box 2.
StoreClosesAtCapacity ==
    [][ (lastOp'.op = "register" /\ lastOp'.res = "approved") =>
          LET stored == [i \in 1..Len(open_box.items) |-> ItemToDict(open_box.items[i])]
                            \o <<items'[lastOp'.id]>>
              n == Len(closed_boxes')
          IN  /\ Len(stored) = BOX_CAPACITY =>
                    /\ n = Len(closed_boxes) + 1
                    /\ SubSeq(closed_boxes', 1, n - 1) = closed_boxes
                    /\ BoxToDict(closed_boxes'[n]) =
                           [kind |-> "box", id |-> open_box.id, closed |-> TRUE,
                            items |-> stored]
                    /\ open_box' = Box(open_box.id + 1, FALSE, <<>>)
                    /\ disk_boxes' = [disk_boxes EXCEPT
                                         ![open_box.id] = BoxToDict(closed_boxes'[n]),
                                         ![open_box.id + 1] = BoxToDict(open_box')]
              /\ Len(stored) < BOX_CAPACITY =>
                    /\ BoxToDict(open_box') =
                           [kind |-> "box", id |-> open_box.id, closed |-> FALSE,
                            items |-> stored]
                    /\ closed_boxes' = closed_boxes
                    /\ disk_boxes' = [disk_boxes EXCEPT
                                         ![open_box.id] = BoxToDict(open_box')]
              /\ ( /\ Len(stored) = BOX_CAPACITY
                    /\ closed_boxes = <<>> /\ open_box.id = 1
                    /\ IdsOf(open_box.items) = approved_items_ids )
                  => /\ Len(closed_boxes') = 1
                     /\ closed_boxes'[1].id = 1 /\ closed_boxes'[1].closed
                     /\ IdsOf(closed_boxes'[1].items) = approved_items_ids'
                     /\ open_box'.id = 2 /\ Len(open_box'.items) = 0 ]_vars

StoreClosesAtCapacityWitness ==
    /\ lastOp.op = "register" /\ lastOp.res = "approved"
    /\ lastWrites.boxes = <<1, 2>>
    /\ Len(closed_boxes) = 1
    /\ IdsOf(closed_boxes[1].items) = approved_items_ids
    /\ Len(approved_items_ids) = BOX_CAPACITY
    /\ ClosedRecord(disk_boxes, 1)
    /\ open_box = Box(2, FALSE, <<>>)

\* C13: remove_item on an approved item that sits in a closed box takes
\* exactly that item out of that box (the others keep their order), writes
\* that box's record, leaves the box closed and at its position even though
\* it is now below capacity, and leaves the open box, every other closed box
\* and every other record as they were.
RemoveFromClosedBoxFrame ==
    [][ LET id == lastOp'.id
            hits == {i \in 1..Len(closed_boxes) : id \in Range(IdsOf(closed_boxes[i].items))}
        IN  ( /\ lastOp'.op = "remove" /\ lastOp'.res = "ok"
              /\ id \in DOMAIN items /\ items[id].approved
              /\ id \notin Range(IdsOf(open_box.items))
              /\ hits # {} )
            => \E i \in hits : \E p \in 1..Len(closed_boxes[i].items) :
                  /\ closed_boxes[i].items[p].id = id
                  /\ closed_boxes' = [closed_boxes EXCEPT ![i].items = RemoveAt(@, p)]
                  /\ closed_boxes'[i].closed
                  /\ closed_boxes'[i].id = closed_boxes[i].id
                  /\ open_box' = open_box
                  /\ disk_boxes' = [disk_boxes EXCEPT
                                       ![closed_boxes[i].id] = BoxToDict(closed_boxes'[i])]
                  /\ disk_boxes'[closed_boxes[i].id].closed ]_vars

RemoveFromClosedBoxFrameWitness ==
    /\ lastOp.op = "remove" /\ lastOp.res = "ok"
    /\ Len(closed_boxes) >= 2
    /\ lastWrites.boxes = <<closed_boxes[1].id>>
    /\ Len(closed_boxes[1].items) < BOX_CAPACITY
    /\ closed_boxes[1].closed
    /\ Len(closed_boxes[2].items) = BOX_CAPACITY
    /\ lastOp.id \notin BoxedIds

\* C14: remove_item with an id that is not in items reports "not found" and
\* changes nothing: items, both id lists, the open box, the closed boxes and
\* every record stay as they were.
RemoveAbsentChangesNothing ==
    [][ (lastOp'.op = "remove" /\ lastOp'.id \notin DOMAIN items) =>
           /\ lastOp'.res = "notfound"
           /\ lastWrites' = NoWrites
           /\ UNCHANGED <<items, approved_items_ids, not_approved_items_ids,
                          open_box, closed_boxes, disk_boxes, disk_rejects>> ]_vars

RemoveAbsentChangesNothingWitness ==
    /\ lastOp.op = "remove" /\ lastOp.res = "notfound"
    /\ lastOp.id \notin DOMAIN items
    /\ approved_items_ids # <<>> /\ not_approved_items_ids # <<>>
    /\ closed_boxes # <<>>
    /\ disk_rejects.kind = "rejects"

\* C15: register_item with an id that is already in items, approved or
\* rejected, is refused as a duplicate and changes nothing in memory or in
\* the records; so every item is indexed under its own id and no id occurs
\* twice across approved_items_ids and not_approved_items_ids.
DuplicateIdRefused ==
    [][ /\ (lastOp'.op = "register" /\ lastOp'.id \in DOMAIN items) =>
              /\ lastOp'.res = "duplicate"
              /\ lastWrites' = NoWrites
              /\ UNCHANGED <<items, approved_items_ids, not_approved_items_ids,
                             open_box, closed_boxes, disk_boxes, disk_rejects>>
        /\ \A id \in DOMAIN items' : items'[id].id = id
        /\ LET ids == approved_items_ids' \o not_approved_items_ids'
           IN  \A i, j \in 1..Len(ids) : ids[i] = ids[j] => i = j ]_vars

DuplicateIdRefusedWitness ==
    /\ lastOp.op = "register" /\ lastOp.res = "duplicate"
    /\ lastOp.id \in Range(not_approved_items_ids)
    /\ \E id \in Range(approved_items_ids) : id \in DOMAIN items
    /\ disk_rejects.kind = "rejects"

\* C16: for every weight, colour and length of the bounded input sets,
\* evaluate_item approves the item iff the weight is in
\* [MIN_WEIGHT, MAX_WEIGHT], the normalized colour is an allowed colour and
\* the length is in [MIN_LENGTH, MAX_LENGTH], bounds included; the three
\* checks are all made, and failure_reasons holds exactly the reasons of the
\* failed checks in the order weight, colour, length.
EvaluateMatchesRules ==
    evaluated.kind = "evaluated" =>
        LET checks == << [reason |-> "Peso fora da faixa",
                          ok |-> evaluated.weight \in MIN_WEIGHT..MAX_WEIGHT],
                         [reason |-> "Cor invalida",
                          ok |-> NormalizeColor(evaluated.color) \in ALLOWED_COLORS],
                         [reason |-> "Comprimento fora da faixa",
                          ok |-> evaluated.length \in MIN_LENGTH..MAX_LENGTH] >>
            failed == SelectSeq(checks, LAMBDA c : ~c.ok)
        IN  /\ evaluated.item.approved <=> \A i \in 1..3 : checks[i].ok
            /\ evaluated.item.failure_reasons = [i \in 1..Len(failed) |-> failed[i].reason]
            /\ evaluated.item.weight = evaluated.weight
            /\ evaluated.item.length = evaluated.length

EvaluateMatchesRulesWitness ==
    /\ evaluated.kind = "evaluated"
    /\ evaluated.weight = MAX_WEIGHT + 1
    /\ evaluated.color = "AZUL"
    /\ evaluated.length = MIN_LENGTH - 1
    /\ Len(evaluated.item.failure_reasons) = 2

\* C17: after any sequence of registrations and removals on a store that
\* started empty, every item in items that is approved has no failure
\* reasons and every item that is not approved has at least one.
VerdictMatchesReasons ==
    \A id \in DOMAIN items :
        /\ items[id].approved => items[id].failure_reasons = <<>>
        /\ ~items[id].approved => Len(items[id].failure_reasons) >= 1

VerdictMatchesReasonsWitness ==
    /\ lastOp.op = "remove" /\ lastOp.res = "ok"
    /\ \E id \in DOMAIN items : items[id].approved
    /\ \E id \in DOMAIN items :
           ~items[id].approved /\ items[id].failure_reasons = <<"Cor invalida">>

\* C18: after a successful remove_item(id), in any state reached by
\* reconstruction from any parsable records and then registrations and
\* removals, the id is gone: it is not in items, in approved_items_ids, in
\* not_approved_items_ids, in any box in memory or in the reject record, and
\* a reconstruction from the records does not bring it back.
RemovedIdIsGone ==
    (lastOp.op = "remove" /\ lastOp.res = "ok") =>
        /\ lastOp.id \notin DOMAIN items
        /\ lastOp.id \notin Range(approved_items_ids)
        /\ lastOp.id \notin Range(not_approved_items_ids)
        /\ lastOp.id \notin BoxedIds
        /\ lastOp.id \notin Range(IdsOf(LoadRejects(disk_rejects)))
        /\ lastOp.id \notin DOMAIN Reconstruct(disk_boxes, disk_rejects).items

\* C19: whenever store_item closes the open box and creates its successor,
\* in any state reached by reconstruction from any parsable box records and
\* then stores, the successor's id is fresh: it is the id of no box in
\* closed_boxes and the key of no other record, so writing the new open box
\* overwrites nothing.
SuccessorIdIsFresh ==
    [][ ( /\ lastOp'.op = "register" /\ lastOp'.res = "approved"
          /\ Len(closed_boxes') = Len(closed_boxes) + 1 )
        => /\ \A i \in 1..Len(closed_boxes') : closed_boxes'[i].id # open_box'.id
           /\ disk_boxes[open_box'.id] = Absent ]_vars

\* C20: in every state reached from an empty store by registrations (and
\* their stores), removals and reconstructions, box ids are unique,
\* closed_boxes is strictly ascending by id, the open box's id is greater
\* than every closed id, and the ids in use, in memory and as record keys,
\* are exactly 1..n with n the id of the open box.
BoxIdsAreOneToN ==
    pc = "ready" =>
        LET n == open_box.id
            ids == [i \in 1..Len(AllBoxes) |-> AllBoxes[i].id]
        IN  /\ \A i, j \in 1..Len(ids) : ids[i] = ids[j] => i = j
            /\ \A i, j \in 1..Len(closed_boxes) :
                   i < j => closed_boxes[i].id < closed_boxes[j].id
            /\ \A i \in 1..Len(closed_boxes) : closed_boxes[i].id < n
            /\ Range(ids) = 1..n
            /\ {k \in BoxIds : disk_boxes[k] # Absent} = 1..n
            /\ \A k \in 1..n : disk_boxes[k].kind = "box" /\ disk_boxes[k].id = k

BoxIdsAreOneToNWitness ==
    /\ lastOp.op = "load"
    /\ Len(closed_boxes) = 2
    /\ open_box.id = 3
    /\ Len(closed_boxes[1].items) < BOX_CAPACITY
    /\ items # EmptyDict

\* C21: in every state reached from an empty store by registrations and
\* removals (an id removed earlier may be registered again),
\* approved_items_ids is the item ids of the closed boxes, by ascending box
\* id, followed by the item ids of the open box, each box in its own item
\* order; a reconstruction from the records produces that same order.
ApprovedOrderFollowsBoxes ==
    pc = "ready" =>
        /\ \A i, j \in 1..Len(closed_boxes) :
               i < j => closed_boxes[i].id < closed_boxes[j].id
        /\ approved_items_ids = IdsOf(Flatten(closed_boxes)) \o IdsOf(open_box.items)
        /\ approved_items_ids = Reconstruct(disk_boxes, disk_rejects).approved_items_ids

ApprovedOrderFollowsBoxesWitness ==
    /\ lastOp.op = "register" /\ lastOp.res = "approved"
    /\ Len(approved_items_ids) = NumIds
    /\ approved_items_ids[NumIds] = lastOp.id
    /\ \E i \in 1..(NumIds - 1) : approved_items_ids[i] > lastOp.id
    /\ \E i \in 1..Len(closed_boxes) :
           Len(closed_boxes[i].items) \in 1..(BOX_CAPACITY - 1)

\* C22: load_state skips unreadable box records without destroying them: on
\* any store of which some box records are corrupt it does not abort, it
\* leaves memory as a reconstruction over only the parsable records would,
\* and it writes at most one box record, at a key that held no record,
\* parsable or corrupt, before it ran.
CorruptRecordsSkippedAndKept ==
    [][ LET parsable_only == [k \in BoxIds |->
                                 IF disk_boxes[k] = Corrupt THEN Absent
                                 ELSE disk_boxes[k]]
            r == Reconstruct(parsable_only, disk_rejects)
            written == {k \in BoxIds : disk_boxes'[k] # disk_boxes[k]}
        IN  ( /\ lastOp'.op = "load"
              /\ \E k \in BoxIds : disk_boxes[k] = Corrupt )
            => /\ lastOp'.res = "ok" /\ pc' = "ready"
               /\ items' = r.items
               /\ approved_items_ids' = r.approved_items_ids
               /\ not_approved_items_ids' = r.not_approved_items_ids
               /\ closed_boxes' = r.closed_boxes
               /\ open_box' = r.open_box
               /\ Cardinality(written) <= 1
               /\ Len(lastWrites'.boxes) <= 1
               /\ \A k \in written \cup Range(lastWrites'.boxes) :
                      disk_boxes[k] = Absent ]_vars

====
